---- MODULE Spec2Model ----
(***************************************************************************)
(* Model of internal/rdb/inspect.go: the inspector of the task queues.     *)
(*                                                                         *)
(* The store (redis) holds five keys: two lists (DefaultQueue = Pending,   *)
(* InProgressQueue = Active) and three sorted sets (ScheduledQueue,        *)
(* RetryQueue, DeadQueue).  Every inspector method is one round trip to    *)
(* the store: a client sends a command (or a script, or a pipeline), the   *)
(* store executes it atomically, the reply travels back and the Go code    *)
(* turns it into the method's return value.                                *)
(*                                                                         *)
(* Scores are float64 in the store and int64 in the Go API.  A stored      *)
(* score is modelled in half-seconds (3 is 1.5 s), so that float64(int64)  *)
(* and int64(float64) are the conversions the code performs.               *)
(***************************************************************************)
EXTENDS Integers, Sequences, FiniteSets, TLC

\* Bound of the model: the number of entries in the initial store.
MaxEntries == 3

Clients == {"c1", "c2"}

Lists == {"DefaultQueue", "InProgressQueue"}
ZSets == {"ScheduledQueue", "RetryQueue", "DeadQueue"}

IDs == {"a", "b"}

(***************************************************************************)
(* A stored entry is a byte string.  `ord` is its place in the byte order  *)
(* (sorted sets order members of equal score bytewise), `json` says        *)
(* whether the bytes are a JSON object, and `extra` stands for bytes the   *)
(* decoders ignore (a field base.TaskMessage does not have).  The entry    *)
(* that is no JSON sorts behind the record of ID "a" and before the two    *)
(* entries of ID "b", so that a scan meets it on either side of a match,   *)
(* and before both entries of one ID.                                      *)
(***************************************************************************)
Entries ==
    { [ord |-> 1, json |-> TRUE,  ID |-> "a", Type |-> "t", extra |-> 0],
      [ord |-> 2, json |-> FALSE, ID |-> "",  Type |-> "",  extra |-> 0],
      [ord |-> 3, json |-> TRUE,  ID |-> "b", Type |-> "t", extra |-> 0],
      [ord |-> 4, json |-> TRUE,  ID |-> "b", Type |-> "t", extra |-> 1] }

\* json.Unmarshal([]byte(s), &msg) / cjson.decode(msg): the record, or a failure.
MalformedRecord == [ok |-> FALSE]
Decode(msg) ==
    IF msg.json THEN [ok |-> TRUE, ID |-> msg.ID, Type |-> msg.Type]
    ELSE MalformedRecord

\* float64(score) and int64(z.Score), scores in the store counted in half-seconds.
Float64(score) == score * 2
Int64(f) == f \div 2

\* the int64 scores a caller passes, and the float64 scores found in the store:
\* 1.0, 1.5 and 2.0
CallerScores == {1, 2}
StoredScores == {Float64(1), Float64(1) + 1, Float64(2)}

----------------------------------------------------------------------------
\* Sorted-set and list commands of the store.

\* bytewise order of the members of equal score
RECURSIVE ByOrd(_)
ByOrd(S) ==
    IF S = {} THEN << >>
    ELSE LET m == CHOOSE e \in S : \A o \in S : e.ord <= o.ord
         IN <<m>> \o ByOrd(S \ {m})

\* ZRANGEBYSCORE key min max, with min = max = score
ZRangeByScore(z, score) == ByOrd({m \in DOMAIN z : z[m] = score})

\* ZRANGE key 0 -1: members by score, then bytewise
RECURSIVE ZRangeFrom(_, _)
ZRangeFrom(z, S) ==
    IF S = {} THEN << >>
    ELSE LET m == CHOOSE e \in S : \A o \in S :
                     \/ z[e] < z[o]
                     \/ z[e] = z[o] /\ e.ord <= o.ord
         IN <<m>> \o ZRangeFrom(z, S \ {m})
ZRange(z) == ZRangeFrom(z, DOMAIN z)

\* ZREM key member
ZRem(z, msg) == [m \in DOMAIN z \ {msg} |-> z[m]]

\* ZCARD key / LLEN key
ZCard(z) == Cardinality(DOMAIN z)
LLen(l) == Len(l)

\* a push to the tail of the list (RPUSH)
RPush(l, msg) == l \o <<msg>>

\* LPUSH key member
LPush(l, msg) == <<msg>> \o l

\* DEL key
EmptyZSet == [m \in {} |-> 0]

----------------------------------------------------------------------------
VARIABLES
    lists,      \* lists[k]: the list stored at key k
    zsets,      \* zsets[k]: the sorted set stored at key k (member -> score)
    pc,         \* pc[c]: "idle", "sent" (request on its way or running), "done"
    call,       \* call[c]: the method client c is calling and its arguments
    ret,        \* ret[c]: what the method returned (err, n, tasks)
    pre,        \* pre[c]: the store when the store began to serve c's call
    post,       \* post[c]: the store when it had served c's call
    lossy,      \* whether the transport to the store may fail in this run
    clock       \* the time, as time.Now() reads it

vars == <<lists, zsets, pc, call, ret, pre, post, lossy, clock>>

Store == [lists |-> lists, zsets |-> zsets]

NoCall == [op |-> "none"]
NoRet == [err |-> "none", n |-> 0, tasks |-> << >>]
NoStore == [lists |-> << >>, zsets |-> << >>]

----------------------------------------------------------------------------
\* The server-side scripts.  A script's outcome is its reply (err, n) and the
\* store it leaves.

\* Variants of the scripts with one slip each, used to see that the properties
\* below depend on the scripts.

\* the scan that copies the match to Pending and forgets the ZREM
RECURSIVE MoveScanKeep(_, _, _, _, _, _)
MoveScanKeep(ls, zs, zset, id, msgs, i) ==
    IF i > Len(msgs) THEN [err |-> "nil", n |-> 0, lists |-> ls, zsets |-> zs]
    ELSE LET msg == msgs[i]
             decoded == Decode(msg)
         IN IF ~decoded.ok
            THEN [err |-> "ScriptError", n |-> 0, lists |-> ls, zsets |-> zs]
            ELSE IF decoded.ID = id
            THEN [err |-> "nil", n |-> 1,
                  lists |-> [ls EXCEPT !["DefaultQueue"] = LPush(@, msg)],
                  zsets |-> zs]
            ELSE MoveScanKeep(ls, zs, zset, id, msgs, i + 1)

\* the scan with the ZREM one line too early, before the comparison of the IDs
RECURSIVE MoveScanEager(_, _, _, _, _, _)
MoveScanEager(ls, zs, zset, id, msgs, i) ==
    IF i > Len(msgs) THEN [err |-> "nil", n |-> 0, lists |-> ls, zsets |-> zs]
    ELSE LET msg == msgs[i]
             decoded == Decode(msg)
             removed == [zs EXCEPT ![zset] = ZRem(@, msg)]
         IN IF ~decoded.ok
            THEN [err |-> "ScriptError", n |-> 0, lists |-> ls, zsets |-> zs]
            ELSE IF decoded.ID = id
            THEN [err |-> "nil", n |-> 1,
                  lists |-> [ls EXCEPT !["DefaultQueue"] = LPush(@, msg)],
                  zsets |-> removed]
            ELSE MoveScanEager(ls, removed, zset, id, msgs, i + 1)

\* the scan that pushes the record encoded anew instead of the stored bytes
Encode(rec) ==
    CHOOSE m \in Entries : m.json /\ m.ID = rec.ID /\ m.Type = rec.Type /\ m.extra = 0

RECURSIVE MoveScanReencode(_, _, _, _, _, _)
MoveScanReencode(ls, zs, zset, id, msgs, i) ==
    IF i > Len(msgs) THEN [err |-> "nil", n |-> 0, lists |-> ls, zsets |-> zs]
    ELSE LET msg == msgs[i]
             decoded == Decode(msg)
         IN IF ~decoded.ok
            THEN [err |-> "ScriptError", n |-> 0, lists |-> ls, zsets |-> zs]
            ELSE IF decoded.ID = id
            THEN [err |-> "nil", n |-> 1,
                  lists |-> [ls EXCEPT !["DefaultQueue"] = LPush(@, Encode(decoded))],
                  zsets |-> [zs EXCEPT ![zset] = ZRem(@, msg)]]
            ELSE MoveScanReencode(ls, zs, zset, id, msgs, i + 1)

\* the drain that pushes to the wrong list
RECURSIVE MoveAllToActive(_, _, _, _, _)
MoveAllToActive(ls, zs, zset, msgs, i) ==
    IF i > Len(msgs) THEN [err |-> "nil", n |-> Len(msgs), lists |-> ls, zsets |-> zs]
    ELSE MoveAllToActive([ls EXCEPT !["InProgressQueue"] = LPush(@, msgs[i])],
                         [zs EXCEPT ![zset] = ZRem(@, msgs[i])],
                         zset, msgs, i + 1)

\* the scan that takes the score alone to identify the record: it moves the
\* first entry at the score that decodes
RECURSIVE MoveScanFirst(_, _, _, _, _, _)
MoveScanFirst(ls, zs, zset, id, msgs, i) ==
    IF i > Len(msgs) THEN [err |-> "nil", n |-> 0, lists |-> ls, zsets |-> zs]
    ELSE LET msg == msgs[i]
             decoded == Decode(msg)
         IN IF ~decoded.ok
            THEN [err |-> "ScriptError", n |-> 0, lists |-> ls, zsets |-> zs]
            ELSE [err |-> "nil", n |-> 1,
                  lists |-> [ls EXCEPT !["DefaultQueue"] = LPush(@, msg)],
                  zsets |-> [zs EXCEPT ![zset] = ZRem(@, msg)]]

\* removeAndEnqueue's script, from entry i of msgs on
RECURSIVE MoveScan(_, _, _, _, _, _)
MoveScan(ls, zs, zset, id, msgs, i) ==
    IF i > Len(msgs) THEN [err |-> "nil", n |-> 0, lists |-> ls, zsets |-> zs]
    ELSE LET msg == msgs[i]
             decoded == Decode(msg)
         IN IF ~decoded.ok
            THEN [err |-> "ScriptError", n |-> 0, lists |-> ls, zsets |-> zs]
            ELSE IF decoded.ID = id
            THEN [err |-> "nil", n |-> 1,
                  lists |-> [ls EXCEPT !["DefaultQueue"] = LPush(@, msg)],
                  zsets |-> [zs EXCEPT ![zset] = ZRem(@, msg)]]
            ELSE MoveScan(ls, zs, zset, id, msgs, i + 1)

removeAndEnqueueScript(ls, zs, zset, id, score) ==
    MoveScan(ls, zs, zset, id, ZRangeByScore(zs[zset], score), 1)

\* removeAndEnqueueAll's script, from entry i of msgs on
RECURSIVE MoveAll(_, _, _, _, _)
MoveAll(ls, zs, zset, msgs, i) ==
    IF i > Len(msgs) THEN [err |-> "nil", n |-> Len(msgs), lists |-> ls, zsets |-> zs]
    ELSE MoveAll([ls EXCEPT !["DefaultQueue"] = LPush(@, msgs[i])],
                 [zs EXCEPT ![zset] = ZRem(@, msgs[i])],
                 zset, msgs, i + 1)

\* the drain whose range stops one entry short (ZRANGE key 0 -2)
removeAndEnqueueAllButLast(ls, zs, zset) ==
    MoveAll(ls, zs, zset, SubSeq(ZRange(zs[zset]), 1, Len(ZRange(zs[zset])) - 1), 1)

removeAndEnqueueAllScript(ls, zs, zset) ==
    MoveAll(ls, zs, zset, ZRange(zs[zset]), 1)

\* deleteTask's script, from entry i of msgs on
RECURSIVE DeleteScan(_, _, _, _, _, _)
DeleteScan(ls, zs, zset, id, msgs, i) ==
    IF i > Len(msgs) THEN [err |-> "nil", n |-> 0, lists |-> ls, zsets |-> zs]
    ELSE LET msg == msgs[i]
             decoded == Decode(msg)
         IN IF ~decoded.ok
            THEN [err |-> "ScriptError", n |-> 0, lists |-> ls, zsets |-> zs]
            ELSE IF decoded.ID = id
            THEN [err |-> "nil", n |-> 1, lists |-> ls,
                  zsets |-> [zs EXCEPT ![zset] = ZRem(@, msg)]]
            ELSE DeleteScan(ls, zs, zset, id, msgs, i + 1)

deleteTaskScript(ls, zs, zset, id, score) ==
    DeleteScan(ls, zs, zset, id, ZRangeByScore(zs[zset], score), 1)

----------------------------------------------------------------------------
\* The initial stores: at most MaxEntries entries, each in one list or in one
\* sorted set at one score; the lists in byte order.

Places == (Lists \X {0}) \cup (ZSets \X StoredScores)

InitList(S, place, k) == ByOrd({m \in S : place[m] = <<k, 0>>})
InitZSet(S, place, k) ==
    LET M == {m \in S : place[m][1] = k}
    IN [m \in M |-> place[m][2]]

InitStore ==
    \E S \in SUBSET Entries :
        /\ Cardinality(S) <= MaxEntries
        /\ \E place \in [S -> Places] :
             /\ lists = [k \in Lists |-> InitList(S, place, k)]
             /\ zsets = [k \in ZSets |-> InitZSet(S, place, k)]

\* no call has been made yet
Idle ==
    /\ pc = [c \in Clients |-> "idle"]
    /\ call = [c \in Clients |-> NoCall]
    /\ ret = [c \in Clients |-> NoRet]
    /\ pre = [c \in Clients |-> NoStore]
    /\ post = [c \in Clients |-> NoStore]
    /\ clock = 0

Init == InitStore /\ Idle /\ lossy = FALSE

InitLossy == InitStore /\ Idle /\ lossy = TRUE

----------------------------------------------------------------------------
\* The calls a client can make.

EnqueueOps == {"EnqueueDeadTask", "EnqueueRetryTask", "EnqueueScheduledTask"}
DeleteOps == {"DeleteDeadTask", "DeleteRetryTask", "DeleteScheduledTask"}
EnqueueAllOps == {"EnqueueAllDeadTasks", "EnqueueAllRetryTasks", "EnqueueAllScheduledTasks"}
DeleteAllOps == {"DeleteAllDeadTasks", "DeleteAllRetryTasks", "DeleteAllScheduledTasks"}
ListOps == {"ListEnqueued", "ListInProgress", "ListScheduled", "ListRetry", "ListDead"}
StatsOps == {"CurrentStats"}

Calls ==
    [op : EnqueueOps \cup DeleteOps, id : IDs, score : CallerScores]
    \cup [op : EnqueueAllOps \cup DeleteAllOps \cup ListOps \cup StatsOps]

\* the key a method works on
Target(op) ==
    CASE op \in {"EnqueueDeadTask", "DeleteDeadTask", "EnqueueAllDeadTasks",
                 "DeleteAllDeadTasks", "ListDead"} -> "DeadQueue"
      [] op \in {"EnqueueRetryTask", "DeleteRetryTask", "EnqueueAllRetryTasks",
                 "DeleteAllRetryTasks", "ListRetry"} -> "RetryQueue"
      [] op \in {"EnqueueScheduledTask", "DeleteScheduledTask", "EnqueueAllScheduledTasks",
                 "DeleteAllScheduledTasks", "ListScheduled"} -> "ScheduledQueue"
      [] op = "ListEnqueued" -> "DefaultQueue"
      [] op = "ListInProgress" -> "InProgressQueue"
      [] OTHER -> "none"

----------------------------------------------------------------------------
\* The Go side of a round trip.

\* script.Run(...).Result() and the cast of the reply: (n, err).  The reply of
\* a script the store ran may still be lost on the way back.
ScriptResult(out, delivered) ==
    IF ~delivered THEN [err |-> "TransportError", n |-> 0]
    ELSE IF out.err # "nil" THEN [err |-> out.err, n |-> 0]
    ELSE [err |-> "nil", n |-> out.n]

\* EnqueueDeadTask / EnqueueRetryTask / EnqueueScheduledTask and deleteTask
\* after the round trip: n == 0 is ErrTaskNotFound
FoundOrNot(r) ==
    IF r.err # "nil" THEN [err |-> r.err, n |-> 0, tasks |-> << >>]
    ELSE IF r.n = 0 THEN [err |-> "ErrTaskNotFound", n |-> 0, tasks |-> << >>]
    ELSE [err |-> "nil", n |-> 0, tasks |-> << >>]

\* EnqueueAll*Tasks return removeAndEnqueueAll's (n, err)
Count(r) == [err |-> r.err, n |-> r.n, tasks |-> << >>]

\* ListEnqueued with the `continue` of the other listings
RECURSIVE EnqueuedTasksSkip(_, _, _)
EnqueuedTasksSkip(data, i, tasks) ==
    IF i > Len(data) THEN [err |-> "nil", n |-> 0, tasks |-> tasks]
    ELSE LET msg == Decode(data[i])
         IN IF ~msg.ok THEN EnqueuedTasksSkip(data, i + 1, tasks)
            ELSE EnqueuedTasksSkip(data, i + 1,
                                   Append(tasks, [ID |-> msg.ID, Type |-> msg.Type]))

\* the loop of ListEnqueued: the first entry that does not decode ends the call
RECURSIVE EnqueuedTasks(_, _, _)
EnqueuedTasks(data, i, tasks) ==
    IF i > Len(data) THEN [err |-> "nil", n |-> 0, tasks |-> tasks]
    ELSE LET msg == Decode(data[i])
         IN IF ~msg.ok THEN [err |-> "MalformedRecord", n |-> 0, tasks |-> << >>]
            ELSE EnqueuedTasks(data, i + 1,
                               Append(tasks, [ID |-> msg.ID, Type |-> msg.Type]))

\* the loop of ListInProgress: an entry that does not decode is skipped
RECURSIVE InProgressTasks(_, _, _)
InProgressTasks(data, i, tasks) ==
    IF i > Len(data) THEN [err |-> "nil", n |-> 0, tasks |-> tasks]
    ELSE LET msg == Decode(data[i])
         IN IF ~msg.ok THEN InProgressTasks(data, i + 1, tasks)
            ELSE InProgressTasks(data, i + 1,
                                 Append(tasks, [ID |-> msg.ID, Type |-> msg.Type]))

\* the loop of ListScheduled, ListRetry and ListDead over ZRangeWithScores:
\* an entry that does not decode is skipped; the view carries int64(z.Score)
RECURSIVE ScoredTasks(_, _, _, _)
ScoredTasks(z, data, i, tasks) ==
    IF i > Len(data) THEN [err |-> "nil", n |-> 0, tasks |-> tasks]
    ELSE LET msg == Decode(data[i])
         IN IF ~msg.ok THEN ScoredTasks(z, data, i + 1, tasks)
            ELSE ScoredTasks(z, data, i + 1,
                             Append(tasks, [ID |-> msg.ID, Type |-> msg.Type,
                                            Score |-> Int64(z[data[i]])]))

TransportError == [err |-> "TransportError", n |-> 0, tasks |-> << >>]

----------------------------------------------------------------------------
\* Actions.

\* whether the reply of a call the store has served reaches the client
Delivery == IF lossy THEN BOOLEAN ELSE {TRUE}

\* the store serves c's call: it is left as `out` says and c's method returns r
Serve(c, out, r) ==
    /\ lists' = out.lists
    /\ zsets' = out.zsets
    /\ pc' = [pc EXCEPT ![c] = "done"]
    /\ ret' = [ret EXCEPT ![c] = r]
    /\ pre' = [pre EXCEPT ![c] = Store]
    /\ post' = [post EXCEPT ![c] = [lists |-> out.lists, zsets |-> out.zsets]]
    /\ UNCHANGED <<call, lossy, clock>>

\* a client calls a method: the request leaves for the store
Request(c, m) ==
    /\ pc[c] = "idle"
    /\ call' = [call EXCEPT ![c] = m]
    /\ pc' = [pc EXCEPT ![c] = "sent"]
    /\ ret' = [ret EXCEPT ![c] = NoRet]
    /\ UNCHANGED <<lists, zsets, pre, post, lossy, clock>>

Invoke(c) == \E m \in Calls : Request(c, m)

\* the request never reaches the store: the client's call returns the error
RequestLost(c) ==
    /\ lossy
    /\ pc[c] = "sent"
    /\ ret[c].tasks = << >>
    /\ Serve(c, Store, TransportError)

EnqueueTask(c, zset) ==
    \E delivered \in Delivery :
        LET out == removeAndEnqueueScript(lists, zsets, zset, call[c].id,
                                          Float64(call[c].score))
        IN Serve(c, out, FoundOrNot(ScriptResult(out, delivered)))

EnqueueDeadTask(c) ==
    /\ pc[c] = "sent" /\ call[c].op = "EnqueueDeadTask"
    /\ EnqueueTask(c, "DeadQueue")

EnqueueRetryTask(c) ==
    /\ pc[c] = "sent" /\ call[c].op = "EnqueueRetryTask"
    /\ EnqueueTask(c, "RetryQueue")

EnqueueScheduledTask(c) ==
    /\ pc[c] = "sent" /\ call[c].op = "EnqueueScheduledTask"
    /\ EnqueueTask(c, "ScheduledQueue")

removeAndEnqueueAll(c, zset) ==
    \E delivered \in Delivery :
        LET out == removeAndEnqueueAllScript(lists, zsets, zset)
        IN Serve(c, out, Count(ScriptResult(out, delivered)))

EnqueueAllScheduledTasks(c) ==
    /\ pc[c] = "sent" /\ call[c].op = "EnqueueAllScheduledTasks"
    /\ removeAndEnqueueAll(c, "ScheduledQueue")

EnqueueAllRetryTasks(c) ==
    /\ pc[c] = "sent" /\ call[c].op = "EnqueueAllRetryTasks"
    /\ removeAndEnqueueAll(c, "RetryQueue")

EnqueueAllDeadTasks(c) ==
    /\ pc[c] = "sent" /\ call[c].op = "EnqueueAllDeadTasks"
    /\ removeAndEnqueueAll(c, "DeadQueue")

deleteTask(c, zset) ==
    \E delivered \in Delivery :
        LET out == deleteTaskScript(lists, zsets, zset, call[c].id,
                                    Float64(call[c].score))
        IN Serve(c, out, FoundOrNot(ScriptResult(out, delivered)))

DeleteDeadTask(c) ==
    /\ pc[c] = "sent" /\ call[c].op = "DeleteDeadTask"
    /\ deleteTask(c, "DeadQueue")

DeleteRetryTask(c) ==
    /\ pc[c] = "sent" /\ call[c].op = "DeleteRetryTask"
    /\ deleteTask(c, "RetryQueue")

DeleteScheduledTask(c) ==
    /\ pc[c] = "sent" /\ call[c].op = "DeleteScheduledTask"
    /\ deleteTask(c, "ScheduledQueue")

\* a purge that deletes the dead queue's key whatever queue it was asked for
DelDead(c, zset) ==
    \E delivered \in Delivery :
        LET out == [lists |-> lists, zsets |-> [zsets EXCEPT !["DeadQueue"] = EmptyZSet]]
        IN Serve(c, out, IF delivered THEN [err |-> "nil", n |-> 0, tasks |-> << >>]
                         ELSE TransportError)

\* r.client.Del(key).Err()
Del(c, zset) ==
    \E delivered \in Delivery :
        LET out == [lists |-> lists, zsets |-> [zsets EXCEPT ![zset] = EmptyZSet]]
        IN Serve(c, out, IF delivered THEN [err |-> "nil", n |-> 0, tasks |-> << >>]
                         ELSE TransportError)

DeleteAllDeadTasks(c) ==
    /\ pc[c] = "sent" /\ call[c].op = "DeleteAllDeadTasks"
    /\ Del(c, "DeadQueue")

DeleteAllRetryTasks(c) ==
    /\ pc[c] = "sent" /\ call[c].op = "DeleteAllRetryTasks"
    /\ Del(c, "RetryQueue")

DeleteAllScheduledTasks(c) ==
    /\ pc[c] = "sent" /\ call[c].op = "DeleteAllScheduledTasks"
    /\ Del(c, "ScheduledQueue")

ListEnqueued(c) ==
    /\ pc[c] = "sent" /\ call[c].op = "ListEnqueued"
    /\ \E delivered \in Delivery :
         Serve(c, Store, IF delivered THEN EnqueuedTasks(lists["DefaultQueue"], 1, << >>)
                         ELSE TransportError)

ListInProgress(c) ==
    /\ pc[c] = "sent" /\ call[c].op = "ListInProgress"
    /\ \E delivered \in Delivery :
         Serve(c, Store, IF delivered THEN InProgressTasks(lists["InProgressQueue"], 1, << >>)
                         ELSE TransportError)

ListScored(c, zset) ==
    \E delivered \in Delivery :
        Serve(c, Store, IF delivered
                        THEN ScoredTasks(zsets[zset], ZRange(zsets[zset]), 1, << >>)
                        ELSE TransportError)

ListScheduled(c) ==
    /\ pc[c] = "sent" /\ call[c].op = "ListScheduled"
    /\ ListScored(c, "ScheduledQueue")

ListRetry(c) ==
    /\ pc[c] = "sent" /\ call[c].op = "ListRetry"
    /\ ListScored(c, "RetryQueue")

ListDead(c) ==
    /\ pc[c] = "sent" /\ call[c].op = "ListDead"
    /\ ListScored(c, "DeadQueue")

\* the pipeline of CurrentStats: LLEN, LLEN, ZCARD, ZCARD, ZCARD, one command at
\* a time; other clients' commands may run in between
\* the pipeline with its first two commands in the other order
StatsKeysSwapped == <<"InProgressQueue", "DefaultQueue", "ScheduledQueue", "RetryQueue", "DeadQueue">>

StatsKeys == <<"DefaultQueue", "InProgressQueue", "ScheduledQueue", "RetryQueue", "DeadQueue">>

StatsCount(k) == IF k \in Lists THEN LLen(lists[k]) ELSE ZCard(zsets[k])

\* time.Now()
Now == clock

CurrentStats(c) ==
    /\ pc[c] = "sent" /\ call[c].op = "CurrentStats"
    /\ LET counts == Append(ret[c].tasks, StatsCount(StatsKeys[Len(ret[c].tasks) + 1]))
       IN IF Len(counts) < Len(StatsKeys)
          THEN /\ ret' = [ret EXCEPT ![c].tasks = counts]
               /\ pre' = [pre EXCEPT ![c] = IF Len(counts) = 1 THEN Store ELSE @]
               /\ UNCHANGED <<lists, zsets, pc, call, post, lossy, clock>>
          ELSE \E delivered \in Delivery :
               /\ ret' = [ret EXCEPT ![c] = IF delivered
                                            THEN [err |-> "nil", n |-> 0, tasks |-> counts,
                                                  Timestamp |-> Now]
                                            ELSE TransportError]
               /\ pc' = [pc EXCEPT ![c] = "done"]
               /\ post' = [post EXCEPT ![c] = Store]
               /\ UNCHANGED <<lists, zsets, call, pre, lossy, clock>>

\* the caller has its answer and may call again
Return(c) ==
    /\ pc[c] = "done"
    /\ pc' = [pc EXCEPT ![c] = "idle"]
    /\ call' = [call EXCEPT ![c] = NoCall]
    /\ ret' = [ret EXCEPT ![c] = NoRet]
    /\ pre' = [pre EXCEPT ![c] = NoStore]
    /\ post' = [post EXCEPT ![c] = NoStore]
    /\ UNCHANGED <<lists, zsets, lossy, clock>>

\* the store serves c's call, whatever method it is
Act(c) ==
    \/ EnqueueDeadTask(c)
    \/ EnqueueRetryTask(c)
    \/ EnqueueScheduledTask(c)
    \/ EnqueueAllScheduledTasks(c)
    \/ EnqueueAllRetryTasks(c)
    \/ EnqueueAllDeadTasks(c)
    \/ DeleteDeadTask(c)
    \/ DeleteRetryTask(c)
    \/ DeleteScheduledTask(c)
    \/ DeleteAllDeadTasks(c)
    \/ DeleteAllRetryTasks(c)
    \/ DeleteAllScheduledTasks(c)
    \/ ListEnqueued(c)
    \/ ListInProgress(c)
    \/ ListScheduled(c)
    \/ ListRetry(c)
    \/ ListDead(c)
    \/ CurrentStats(c)

\* one inspector, calling again and again, over a reliable transport
Next == Invoke("c1") \/ Act("c1") \/ Return("c1")

Spec == Init /\ [][Next]_vars

\* one call, from any store, over a transport that may lose the request or
\* the reply
NextLossy == Invoke("c1") \/ RequestLost("c1") \/ Act("c1")

SpecLossy == InitLossy /\ [][NextLossy]_vars

\* Two inspectors at once, one call each over a reliable transport, from the
\* stores in which every ID is in at most one queue: each of the two records
\* in no queue, in a list, or in a sorted set at score 1.0, and possibly one
\* undecodable entry in a sorted set at that score.
Wellformed(id) == CHOOSE m \in Entries : m.json /\ m.ID = id /\ m.extra = 0
Undecodable == CHOOSE m \in Entries : ~m.json

ConcPlaces == (Lists \X {0}) \cup (ZSets \X {Float64(1)})

InitConc ==
    /\ \E S \in SUBSET ({Wellformed(id) : id \in IDs} \cup {Undecodable}) :
         \E place \in [S -> ConcPlaces] :
              /\ Undecodable \in S => place[Undecodable][1] \in ZSets
              /\ lists = [k \in Lists |-> InitList(S, place, k)]
              /\ zsets = [k \in ZSets |-> InitZSet(S, place, k)]
    /\ Idle
    /\ lossy = FALSE

\* the calls of the two inspectors: every method, on the score of the store
ConcCalls == {m \in Calls : "score" \in DOMAIN m => m.score = 1}

InvokeConc(c) == \E m \in ConcCalls : Request(c, m)

NextConc == \E c \in Clients : InvokeConc(c) \/ Act(c)

SpecConc == InitConc /\ [][NextConc]_vars

\* One inspector asking for the statistics once, no other client, while time
\* passes.  The lists hold up to MaxEntries entries each (a list may hold the
\* same bytes more than once), the sorted sets up to MaxEntries between them.
MaxClock == 2

Repeat(m, n) == [i \in 1..n |-> m]

InitStats ==
    /\ \E np \in 0..MaxEntries, na \in 0..MaxEntries :
         lists = [k \in Lists |-> IF k = "DefaultQueue" THEN Repeat(Wellformed("a"), np)
                                                        ELSE Repeat(Wellformed("b"), na)]
    /\ \E S \in SUBSET Entries :
         /\ Cardinality(S) <= MaxEntries
         /\ \E place \in [S -> ZSets \X {Float64(1)}] :
              zsets = [k \in ZSets |-> InitZSet(S, place, k)]
    /\ Idle
    /\ lossy = FALSE

\* the caller notes the time and calls CurrentStats
InvokeStats(c) == Request(c, [op |-> "CurrentStats", start |-> clock])

\* time passes
Tick ==
    /\ clock < MaxClock
    /\ clock' = clock + 1
    /\ UNCHANGED <<lists, zsets, pc, call, ret, pre, post, lossy>>

NextStats == InvokeStats("c1") \/ CurrentStats("c1") \/ Tick

SpecStats == InitStats /\ [][NextStats]_vars

\* One inspector asking for the store's report once.  A report is any text of
\* up to MaxLen characters over a letter, the colon, CR and LF.
MaxLen == 7

Alphabet == {"a", ":", "\r", "\n"}

Reports == UNION {[1..n -> Alphabet] : n \in 0..MaxLen}

\* strings.Index(s, sep): where sep first occurs in s, 0 if nowhere
Index(s, sep) ==
    LET at == {i \in 1..(Len(s) - Len(sep) + 1) : SubSeq(s, i, i + Len(sep) - 1) = sep}
    IN IF at = {} THEN 0 ELSE CHOOSE i \in at : \A j \in at : i <= j

\* strings.Split(s, sep) for a separator that is not empty
RECURSIVE Split(_, _)
Split(s, sep) ==
    LET i == Index(s, sep)
    IN IF i = 0 THEN <<s>>
       ELSE <<SubSeq(s, 1, i - 1)>> \o Split(SubSeq(s, i + Len(sep), Len(s)), sep)

\* make(map[string]string)
EmptyInfo == << >>

\* info[k] = v
Put(info, k, v) == [x \in DOMAIN info \cup {k} |-> IF x = k THEN v ELSE info[x]]

\* a loop body that takes the first two of two or more parts
ParseLineLoose(info, l) ==
    LET kv == Split(l, <<":">>)
    IN IF Len(kv) >= 2 THEN Put(info, kv[1], kv[2]) ELSE info

\* the body of the loop over the lines
ParseLine(info, l) ==
    LET kv == Split(l, <<":">>)
    IN IF Len(kv) = 2 THEN Put(info, kv[1], kv[2]) ELSE info

RECURSIVE ParseLines(_, _, _)
ParseLines(lines, i, info) ==
    IF i > Len(lines) THEN info
    ELSE ParseLines(lines, i + 1, ParseLine(info, lines[i]))

ParseInfo(res) == ParseLines(Split(res, <<"\r", "\n">>), 1, EmptyInfo)

InitInfo ==
    /\ lists = [k \in Lists |-> << >>]
    /\ zsets = [k \in ZSets |-> EmptyZSet]
    /\ Idle
    /\ lossy = FALSE

InvokeInfo(c) == Request(c, [op |-> "RedisInfo"])

\* r.client.Info().Result() and the parse of what it returns
RedisInfo(c) ==
    /\ pc[c] = "sent" /\ call[c].op = "RedisInfo"
    /\ \E res \in Reports, delivered \in Delivery :
         Serve(c, Store, IF delivered
                         THEN [err |-> "nil", n |-> 0, tasks |-> << >>,
                               res |-> res, info |-> ParseInfo(res)]
                         ELSE TransportError)

NextInfo == InvokeInfo("c1") \/ RedisInfo("c1")

SpecInfo == InitInfo /\ [][NextInfo]_vars

\* One inspector draining a sorted set once while the other clients of the
\* store (producers, workers) add entries to the sorted sets.  The scripts
\* are atomic, so an entry is added before the drain runs or after it.
Stored ==
    {m \in Entries : \/ \E k \in Lists : \E i \in 1..Len(lists[k]) : lists[k][i] = m
                     \/ \E k \in ZSets : m \in DOMAIN zsets[k]}

\* ZADD key score member, of an entry that is in no queue
Writer ==
    /\ Cardinality(Stored) < MaxEntries
    /\ \E m \in Entries \ Stored, k \in ZSets, f \in {Float64(s) : s \in CallerScores} :
         zsets' = [zsets EXCEPT ![k] = [x \in DOMAIN @ \cup {m} |-> IF x = m THEN f ELSE @[x]]]
    /\ UNCHANGED <<lists, pc, call, ret, pre, post, lossy, clock>>

InitWriters ==
    /\ \E S \in SUBSET Entries :
         /\ Cardinality(S) <= MaxEntries
         /\ \E place \in [S -> ConcPlaces] :
              /\ lists = [k \in Lists |-> InitList(S, place, k)]
              /\ zsets = [k \in ZSets |-> InitZSet(S, place, k)]
    /\ Idle
    /\ lossy = FALSE

\* the caller calls a requeue-all; before is the store as the call begins
InvokeDrain(c) == \E op \in EnqueueAllOps : Request(c, [op |-> op, before |-> Store])

NextWriters ==
    \/ InvokeDrain("c1")
    \/ EnqueueAllScheduledTasks("c1")
    \/ EnqueueAllRetryTasks("c1")
    \/ EnqueueAllDeadTasks("c1")
    \/ Writer

SpecWriters == InitWriters /\ [][NextWriters]_vars

\* A listing and then a single-record requeue or delete of one of the
\* records listed, by the ID and the Score of its view, with no other client
\* of the store.  Every entry of the store decodes.
ScoredListOps == {"ListScheduled", "ListRetry", "ListDead"}

InitListed ==
    /\ \E S \in SUBSET {m \in Entries : m.json} :
         /\ Cardinality(S) <= MaxEntries
         /\ \E place \in [S -> Places] :
              /\ lists = [k \in Lists |-> InitList(S, place, k)]
              /\ zsets = [k \in ZSets |-> InitZSet(S, place, k)]
    /\ Idle
    /\ lossy = FALSE

InvokeList(c) == \E op \in ScoredListOps : Request(c, [op |-> op])

\* d calls with the ID and the Score of a view that c's listing has returned
InvokeListed(c, d) ==
    /\ pc[c] = "done"
    /\ \E i \in 1..Len(ret[c].tasks), op \in EnqueueOps \cup DeleteOps :
         /\ Target(op) = Target(call[c].op)
         /\ Request(d, [op |-> op, id |-> ret[c].tasks[i].ID,
                         score |-> ret[c].tasks[i].Score])

NextListed ==
    \/ InvokeList("c1")
    \/ ListScheduled("c1") \/ ListRetry("c1") \/ ListDead("c1")
    \/ InvokeListed("c1", "c2")
    \/ EnqueueScheduledTask("c2") \/ EnqueueRetryTask("c2") \/ EnqueueDeadTask("c2")
    \/ DeleteScheduledTask("c2") \/ DeleteRetryTask("c2") \/ DeleteDeadTask("c2")

SpecListed == InitListed /\ [][NextListed]_vars

----------------------------------------------------------------------------
\* Vocabulary of the properties.  A store s is a record [lists, zsets].

Pending(s) == s.lists["DefaultQueue"]
Active(s) == s.lists["InProgressQueue"]

\* how often the bytes m occur in the list l
Occ(l, m) == Cardinality({i \in 1..Len(l) : l[i] = m})

\* how often the bytes m occur in the sorted sets of s
RECURSIVE InZSets(_, _, _)
InZSets(s, m, K) ==
    IF K = {} THEN 0
    ELSE LET k == CHOOSE q \in K : TRUE
         IN (IF m \in DOMAIN s.zsets[k] THEN 1 ELSE 0) + InZSets(s, m, K \ {k})

\* how often the bytes m occur in the five queues of s
Copies(s, m) == Occ(Pending(s), m) + Occ(Active(s), m) + InZSets(s, m, ZSets)

RECURSIVE SumOver(_, _, _)
SumOver(s, id, M) ==
    IF M = {} THEN 0
    ELSE LET m == CHOOSE e \in M : TRUE
         IN (IF Decode(m).ok /\ Decode(m).ID = id THEN Copies(s, m) ELSE 0)
            + SumOver(s, id, M \ {m})

\* how many entries of the five queues of s carry the ID id
IDCount(s, id) == SumOver(s, id, Entries)

RECURSIVE Cards(_, _)
Cards(s, K) ==
    IF K = {} THEN 0
    ELSE LET k == CHOOSE q \in K : TRUE
         IN Cardinality(DOMAIN s.zsets[k]) + Cards(s, K \ {k})

\* the number of entries of the five queues of s
Total(s) == Len(Pending(s)) + Len(Active(s)) + Cards(s, ZSets)

\* the data model's invariant: an ID is in at most one queue, once
AtMostOneQueue(s) == \A id \in IDs : IDCount(s, id) <= 1

\* the entries of the sorted set z at score f that carry the ID id
Matching(z, id, f) ==
    {m \in DOMAIN z : z[m] = f /\ Decode(m).ok /\ Decode(m).ID = id}

\* client c's call has returned
Done(c) == pc[c] = "done"

\* the sorted set c's call works on, before and after the store served it
Source(c) == pre[c].zsets[Target(call[c].op)]
SourceAfter(c) == post[c].zsets[Target(call[c].op)]

OthersUnchanged(c) ==
    /\ Active(post[c]) = Active(pre[c])
    /\ \A k \in ZSets \ {Target(call[c].op)} : post[c].zsets[k] = pre[c].zsets[k]

----------------------------------------------------------------------------
\* C1.  Uniqueness-preserving move: in a store that satisfies the data model's
\* invariant (every ID in at most one queue), when EnqueueScheduledTask /
\* EnqueueRetryTask / EnqueueDeadTask(r.ID, s) returns without error, the
\* record r that was in the source queue at score s is in Pending exactly
\* once and in the source queue no more, and the five queues hold as many
\* entries as before.
C1_UniquenessPreservingMove ==
    \A c \in Clients :
        (/\ Done(c)
         /\ call[c].op \in EnqueueOps
         /\ ret[c].err = "nil"
         /\ AtMostOneQueue(pre[c]))
        => /\ Matching(Source(c), call[c].id, Float64(call[c].score)) # {}
           /\ \A r \in Matching(Source(c), call[c].id, Float64(call[c].score)) :
                /\ Occ(Pending(post[c]), r) = 1
                /\ r \notin DOMAIN SourceAfter(c)
                /\ Copies(post[c], r) = 1
           /\ Total(post[c]) = Total(pre[c])

\* a requeue has succeeded on a source queue that held two more entries
C1_Witness ==
    \E c \in Clients :
        /\ Done(c)
        /\ call[c].op \in EnqueueOps
        /\ ret[c].err = "nil"
        /\ AtMostOneQueue(pre[c])
        /\ Cardinality(DOMAIN Source(c)) = 3
        /\ Matching(Source(c), call[c].id, Float64(call[c].score)) # {}

\* C2.  Not-found contract: a single-record requeue or delete called with an
\* (id, score) for which the target queue holds no entry of that ID at exactly
\* that score returns ErrTaskNotFound and leaves the five queues as they were
\* (the request having reached the store and the reply the caller).
C2_NotFoundContract ==
    \A c \in Clients :
        (/\ Done(c)
         /\ call[c].op \in EnqueueOps \cup DeleteOps
         /\ ret[c].err # "TransportError"
         /\ Matching(Source(c), call[c].id, Float64(call[c].score)) = {})
        => /\ ret[c].err = "ErrTaskNotFound"
           /\ post[c] = pre[c]

\* C3.  Bulk drain completeness: EnqueueAll*Tasks on a source queue of n
\* entries returns n, leaves the source queue empty, has every one of the n
\* entries in Pending once more than before, and leaves Active and the other
\* sorted sets as they were; for n = 0 it returns 0 and changes nothing.
C3_BulkDrainCompleteness ==
    \A c \in Clients :
        (/\ Done(c)
         /\ call[c].op \in EnqueueAllOps
         /\ ret[c].err = "nil")
        => /\ ret[c].n = Cardinality(DOMAIN Source(c))
           /\ DOMAIN SourceAfter(c) = {}
           /\ \A m \in Entries :
                Occ(Pending(post[c]), m) =
                    Occ(Pending(pre[c]), m) + (IF m \in DOMAIN Source(c) THEN 1 ELSE 0)
           /\ OthersUnchanged(c)
           /\ (DOMAIN Source(c) = {} => ret[c].n = 0 /\ post[c] = pre[c])

\* a requeue-all has moved three entries
C3_Witness ==
    \E c \in Clients :
        /\ Done(c)
        /\ call[c].op \in EnqueueAllOps
        /\ ret[c].err = "nil"
        /\ ret[c].n = 3
        /\ Len(Pending(post[c])) = 3

\* C4.  Match-and-delete: when the target queue holds an entry of the given ID
\* at exactly the given score, Delete*Task succeeds, removes exactly one such
\* entry from the target queue, inserts it nowhere and leaves every other
\* entry where it was, so that the five queues hold one entry less.
C4_MatchAndDelete ==
    \A c \in Clients :
        (/\ Done(c)
         /\ call[c].op \in DeleteOps
         /\ ret[c].err # "TransportError"
         /\ Matching(Source(c), call[c].id, Float64(call[c].score)) # {})
        => /\ ret[c].err = "nil"
           /\ \E r \in Matching(Source(c), call[c].id, Float64(call[c].score)) :
                SourceAfter(c) = ZRem(Source(c), r)
           /\ post[c].lists = pre[c].lists
           /\ OthersUnchanged(c)
           /\ Total(post[c]) = Total(pre[c]) - 1

\* C5.  At-most-one-queue invariant: from a store in which every ID is in at
\* most one queue, under every interleaving of the calls of two inspectors,
\* every ID stays in at most one queue and at most once in it; and a record a
\* requeue has moved is, in every state another actor can see, in Pending
\* once and in no sorted set (never in both, never in neither).
C5_AtMostOneQueueInvariant ==
    /\ AtMostOneQueue(Store)
    /\ \A c \in Clients :
         (Done(c) /\ call[c].op \in EnqueueOps /\ ret[c].err = "nil")
         => \A r \in Matching(Source(c), call[c].id, Float64(call[c].score)) :
              Occ(Pending(Store), r) = 1 /\ InZSets(Store, r, ZSets) = 0
    /\ \A c \in Clients :
         (Done(c) /\ call[c].op \in EnqueueAllOps /\ ret[c].err = "nil")
         => \A r \in DOMAIN Source(c) :
              Occ(Pending(Store), r) = 1 /\ InZSets(Store, r, ZSets) = 0

\* the two inspectors have requeued one record each, from different queues
C5_Witness ==
    \E c, d \in Clients :
        /\ c # d /\ Done(c) /\ Done(d)
        /\ call[c].op \in EnqueueOps /\ ret[c].err = "nil"
        /\ call[d].op \in EnqueueAllOps /\ ret[d].n >= 1
        /\ Len(Pending(Store)) = 2

\* C6.  Racing requeues: when two callers make the same single-record requeue
\* of a record that is in the source queue, exactly one call succeeds, the
\* other returns ErrTaskNotFound, and the record is in Pending exactly once.
C6_RacingRequeues ==
    \A c, d \in Clients :
        (/\ c # d /\ Done(c) /\ Done(d)
         /\ call[c].op \in EnqueueOps
         /\ call[d] = call[c]
         /\ Matching(Source(c), call[c].id, Float64(call[c].score)) # {})
        => /\ \/ ret[c].err = "nil" /\ ret[d].err = "ErrTaskNotFound"
              \/ ret[d].err = "nil" /\ ret[c].err = "ErrTaskNotFound"
           /\ \A r \in Matching(Source(c), call[c].id, Float64(call[c].score)) :
                Occ(Pending(Store), r) = 1

\* C7.  The inspector never writes to Active and never originates a record:
\* every call leaves Active as it was, the sorted sets only lose members (the
\* ones that stay keep their scores), Pending loses nothing, and no bytes
\* occur in the five queues more often after the call than before.
C7_NeverOriginates ==
    \A c \in Clients :
        Done(c)
        => /\ Active(post[c]) = Active(pre[c])
           /\ \A k \in ZSets :
                /\ DOMAIN post[c].zsets[k] \subseteq DOMAIN pre[c].zsets[k]
                /\ \A m \in DOMAIN post[c].zsets[k] :
                     post[c].zsets[k][m] = pre[c].zsets[k][m]
           /\ \A m \in Entries :
                /\ Occ(Pending(post[c]), m) >= Occ(Pending(pre[c]), m)
                /\ Copies(post[c], m) <= Copies(pre[c], m)

\* a requeue-all has moved entries while Active held one
C7_Witness ==
    \E c \in Clients :
        /\ Done(c)
        /\ call[c].op \in EnqueueAllOps
        /\ ret[c].n = 2
        /\ Len(Active(pre[c])) = 1

\* C8, as the spec has it.  Error means state unchanged: a call that returns
\* an error of any kind leaves the five queues as they were before the call.
C8_ErrorMeansUnchanged ==
    \A c \in Clients :
        (Done(c) /\ ret[c].err # "nil") => post[c] = pre[c]

\* the whole effect of c's call, and nothing else
WholeEffect(c) ==
    LET q == Target(call[c].op)
    IN CASE call[c].op \in EnqueueOps ->
              \E r \in Matching(Source(c), call[c].id, Float64(call[c].score)) :
                  /\ post[c].zsets = [pre[c].zsets EXCEPT ![q] = ZRem(@, r)]
                  /\ post[c].lists = [pre[c].lists EXCEPT !["DefaultQueue"] = <<r>> \o @]
         [] call[c].op \in DeleteOps ->
              \E r \in Matching(Source(c), call[c].id, Float64(call[c].score)) :
                  /\ post[c].zsets = [pre[c].zsets EXCEPT ![q] = ZRem(@, r)]
                  /\ post[c].lists = pre[c].lists
         [] call[c].op \in EnqueueAllOps ->
              /\ DOMAIN SourceAfter(c) = {}
              /\ Total(post[c]) = Total(pre[c])
              /\ OthersUnchanged(c)
         [] call[c].op \in DeleteAllOps ->
              /\ post[c].zsets = [pre[c].zsets EXCEPT ![q] = EmptyZSet]
              /\ post[c].lists = pre[c].lists
         [] OTHER -> FALSE

\* C8, amended.  A call that returns ErrTaskNotFound, a failure of the scan on
\* an entry that does not decode, or the decode error of ListEnqueued leaves
\* the five queues as they were; a call that returns a transport error leaves
\* them as they were or with the call's whole effect applied (the reply was
\* lost), never with a part of it.
C8_ErrorUnchangedUnlessReplyLost ==
    \A c \in Clients :
        Done(c)
        => /\ ret[c].err \notin {"nil", "TransportError"} => post[c] = pre[c]
           /\ ret[c].err = "TransportError" => (post[c] = pre[c] \/ WholeEffect(c))

\* a requeue has failed in the scan, on an undecodable entry behind a record
\* of another ID
C8_Witness ==
    \E c \in Clients :
        /\ Done(c)
        /\ call[c].op \in EnqueueOps
        /\ ret[c].err = "ScriptError"
        /\ \E m \in DOMAIN Source(c) :
             /\ Source(c)[m] = Float64(call[c].score)
             /\ Decode(m).ok
             /\ Decode(m).ID # call[c].id

\* C9.  Byte preservation: the entries a requeue or a requeue-all adds to
\* Pending are, byte for byte, the entries it removed from the source queue,
\* so that each decodes after the move to what it decoded to before.
C9_BytePreservation ==
    \A c \in Clients :
        (Done(c) /\ call[c].op \in EnqueueOps \cup EnqueueAllOps /\ ret[c].err = "nil")
        => /\ DOMAIN Source(c) \ DOMAIN SourceAfter(c) # {} <=> post[c] # pre[c]
           /\ \A m \in Entries :
                Occ(Pending(post[c]), m) - Occ(Pending(pre[c]), m) =
                    (IF m \in DOMAIN Source(c) \ DOMAIN SourceAfter(c) THEN 1 ELSE 0)
           /\ \A m \in DOMAIN Source(c) \ DOMAIN SourceAfter(c) :
                \E i \in 1..Len(Pending(post[c])) :
                    /\ Pending(post[c])[i] = m
                    /\ Decode(Pending(post[c])[i]) = Decode(m)

\* a requeue has moved the entry with bytes the decoder ignores
C9_Witness ==
    \E c \in Clients :
        /\ Done(c)
        /\ call[c].op \in EnqueueOps
        /\ ret[c].err = "nil"
        /\ Len(Pending(post[c])) >= 1
        /\ Pending(post[c])[1].extra = 1
        /\ Pending(post[c])[1] \in DOMAIN Source(c)

\* C10.  Listing asymmetry: when the list holds an entry that does not decode,
\* ListEnqueued returns an error and no record; ListInProgress, ListScheduled,
\* ListRetry and ListDead return no error and one view, in the store's order,
\* for each entry that decodes; and every listing leaves the queues as they
\* were.
WellFormed(l) == {i \in 1..Len(l) : Decode(l[i]).ok}

C10_ListingAsymmetry ==
    \A c \in Clients :
        (Done(c) /\ call[c].op \in ListOps /\ ret[c].err # "TransportError")
        => /\ post[c] = pre[c]
           /\ call[c].op = "ListEnqueued" =>
                IF WellFormed(Pending(pre[c])) # 1..Len(Pending(pre[c]))
                THEN ret[c].err = "MalformedRecord" /\ ret[c].tasks = << >>
                ELSE /\ ret[c].err = "nil"
                     /\ Len(ret[c].tasks) = Len(Pending(pre[c]))
           /\ call[c].op = "ListInProgress" =>
                /\ ret[c].err = "nil"
                /\ Len(ret[c].tasks) = Cardinality(WellFormed(Active(pre[c])))
           /\ call[c].op \in {"ListScheduled", "ListRetry", "ListDead"} =>
                /\ ret[c].err = "nil"
                /\ Len(ret[c].tasks) = Cardinality({m \in DOMAIN Source(c) : Decode(m).ok})
                /\ \A m \in DOMAIN Source(c) :
                     Decode(m).ok =>
                        \E i \in 1..Len(ret[c].tasks) :
                            /\ ret[c].tasks[i].ID = Decode(m).ID
                            /\ ret[c].tasks[i].Score = Int64(Source(c)[m])

\* ListEnqueued has failed on a Pending list of two records and an
\* undecodable entry
C10_Witness ==
    \E c \in Clients :
        /\ Done(c)
        /\ call[c].op = "ListEnqueued"
        /\ ret[c].err = "MalformedRecord"
        /\ Cardinality(WellFormed(Pending(pre[c]))) = 2
        /\ Len(Pending(pre[c])) = 3

C12_StatsCounts ==
    \A c \in Clients :
        (Done(c) /\ call[c].op = "CurrentStats")
        => /\ ret[c].err = "nil"
           /\ ret[c].tasks = << Len(Pending(pre[c])), Len(Active(pre[c])),
                                Cardinality(DOMAIN pre[c].zsets["ScheduledQueue"]),
                                Cardinality(DOMAIN pre[c].zsets["RetryQueue"]),
                                Cardinality(DOMAIN pre[c].zsets["DeadQueue"]) >>
           /\ ret[c].Timestamp >= call[c].start
           /\ post[c] = pre[c]
           /\ Store = pre[c]

\* the statistics of queues of 3, 1, 2, 0 and 1 entries have been returned,
\* stamped later than the call began
C12_Witness ==
    \E c \in Clients :
        /\ Done(c)
        /\ call[c].op = "CurrentStats"
        /\ ret[c].tasks = <<3, 1, 2, 0, 1>>
        /\ Len(Pending(pre[c])) = 3
        /\ Cardinality(DOMAIN pre[c].zsets["ScheduledQueue"]) = 2
        /\ ret[c].Timestamp > call[c].start

\* the lines of a report: where the CRLFs are, where the lines start, and the
\* line that starts at b
Seps(s) == {i \in 1..(Len(s) - 1) : s[i] = "\r" /\ s[i + 1] = "\n"}

LineStarts(s) == {1} \cup {i + 2 : i \in Seps(s)}

LineAt(s, b) ==
    LET after == {i \in Seps(s) : i >= b}
    IN SubSeq(s, b, IF after = {} THEN Len(s)
                    ELSE (CHOOSE i \in after : \A j \in after : i <= j) - 1)

Colons(l) == {j \in 1..Len(l) : l[j] = ":"}

\* the starts of the lines that are one key and one value
Pairs(s) == {b \in LineStarts(s) : Cardinality(Colons(LineAt(s, b))) = 1}

KeyOf(l) == SubSeq(l, 1, (CHOOSE j \in Colons(l) : TRUE) - 1)
ValueOf(l) == SubSeq(l, (CHOOSE j \in Colons(l) : TRUE) + 1, Len(l))

\* C13.  Store-info parsing: RedisInfo returns without error a mapping whose
\* keys are the keys of exactly those CRLF-separated lines of the report that
\* hold exactly one colon, each with the value of the (last) such line of that
\* key; lines with no colon or with two or more are not in the mapping.
C13_InfoParsing ==
    \A c \in Clients :
        (Done(c) /\ call[c].op = "RedisInfo")
        => LET res == ret[c].res
               info == ret[c].info
           IN /\ ret[c].err = "nil"
              /\ DOMAIN info = {KeyOf(LineAt(res, b)) : b \in Pairs(res)}
              /\ \A b \in Pairs(res) :
                   (\A d \in Pairs(res) :
                        KeyOf(LineAt(res, d)) = KeyOf(LineAt(res, b)) => d <= b)
                   => info[KeyOf(LineAt(res, b))] = ValueOf(LineAt(res, b))

\* a report of a key-value line, a line without a colon and a line of two
\* colons has been parsed into a mapping of the one key
C13_Witness ==
    \E c \in Clients :
        /\ Done(c)
        /\ call[c].op = "RedisInfo"
        /\ Cardinality(DOMAIN ret[c].info) = 1
        /\ \E b \in LineStarts(ret[c].res) : Colons(LineAt(ret[c].res, b)) = {}
        /\ \E b \in LineStarts(ret[c].res) :
             Cardinality(Colons(LineAt(ret[c].res, b))) >= 2

\* the entries of c's source queue at the score of c's call, and the entries
\* c's call has removed from its source queue
AtScore(c) == {m \in DOMAIN Source(c) : Source(c)[m] = Float64(call[c].score)}
Removed(c) == DOMAIN Source(c) \ DOMAIN SourceAfter(c)

\* C14.  Score-collision disambiguation: a single-record requeue or delete
\* called with (id, score) removes from its source queue nothing but an entry
\* at that score whose decoded ID is id, and at most one; every other entry
\* stays in the source queue at its score; and when the entries at that score
\* are all records and one of them has the ID, the call succeeds and removes
\* it, wherever in the scan order it falls.
C14_ScoreCollision ==
    \A c \in Clients :
        (Done(c) /\ call[c].op \in EnqueueOps \cup DeleteOps)
        => LET match == Matching(Source(c), call[c].id, Float64(call[c].score))
           IN /\ Removed(c) \subseteq match
              /\ Cardinality(Removed(c)) <= 1
              /\ DOMAIN SourceAfter(c) \subseteq DOMAIN Source(c)
              /\ \A m \in DOMAIN SourceAfter(c) : SourceAfter(c)[m] = Source(c)[m]
              /\ ((match # {} /\ \A m \in AtScore(c) : Decode(m).ok)
                  => ret[c].err = "nil" /\ Cardinality(Removed(c)) = 1)

\* a call has acted on a record that shares its score with a record of
\* another ID, which the scan met first and which has stayed
C14_Witness ==
    \E c \in Clients :
        /\ Done(c)
        /\ call[c].op \in EnqueueOps \cup DeleteOps
        /\ ret[c].err = "nil"
        /\ \E r \in Removed(c), m \in AtScore(c) :
             /\ Decode(m).ok
             /\ Decode(m).ID # call[c].id
             /\ m.ord < r.ord
             /\ m \in DOMAIN SourceAfter(c)

\* C15.  Tie-break on duplicated (score, id): when the source queue holds more
\* than one entry of the given ID at the given score, a single-record requeue
\* or delete succeeds, removes the first of them in scan order and nothing
\* else, and leaves the others in the source queue.
C15_TieBreak ==
    \A c \in Clients :
        LET match == Matching(Source(c), call[c].id, Float64(call[c].score))
        IN (/\ Done(c)
            /\ call[c].op \in EnqueueOps \cup DeleteOps
            /\ Cardinality(match) > 1)
           => /\ ret[c].err = "nil"
              /\ Removed(c) = {CHOOSE r \in match : \A o \in match : r.ord <= o.ord}

\* C16.  Requeue inserts at the head of Pending: after a successful
\* single-record requeue Pending is the moved entry followed by Pending as it
\* was; after a requeue-all Pending is the moved entries, each once, followed
\* by Pending as it was.
C16_HeadOfPending ==
    \A c \in Clients :
        LET old == Pending(pre[c])
            new == Pending(post[c])
            k == Len(new) - Len(old)
        IN /\ (Done(c) /\ call[c].op \in EnqueueOps /\ ret[c].err = "nil")
              => \E r \in Removed(c) : new = <<r>> \o old
           /\ (Done(c) /\ call[c].op \in EnqueueAllOps /\ ret[c].err = "nil")
              => /\ k = Cardinality(DOMAIN Source(c))
                 /\ SubSeq(new, k + 1, Len(new)) = old
                 /\ {new[i] : i \in 1..k} = DOMAIN Source(c)

\* a requeue or a requeue-all has moved one entry ahead of the two different
\* entries that Pending held
C16_Witness ==
    /\ \E c \in Clients :
         /\ Done(c)
         /\ call[c].op \in EnqueueOps \cup EnqueueAllOps
         /\ ret[c].err = "nil"
         /\ Len(Pending(pre[c])) = 2
         /\ Pending(pre[c])[1] # Pending(pre[c])[2]
         /\ Len(Pending(post[c])) = 3

\* C17.  Requeue racing with delete: when one caller requeues and another
\* deletes the same (queue, id, score) while the queue holds that record,
\* exactly one of the two calls succeeds and the other returns
\* ErrTaskNotFound; the record is then in Pending once and in no sorted set
\* if the requeue succeeded, and in no queue if the delete did.
C17_RequeueRacingDelete ==
    \A c, d \in Clients :
        LET match == Matching(Source(c), call[c].id, Float64(call[c].score))
                         \cup Matching(Source(d), call[c].id, Float64(call[c].score))
        IN (/\ c # d /\ Done(c) /\ Done(d)
            /\ call[c].op \in EnqueueOps
            /\ call[d].op \in DeleteOps
            /\ Target(call[d].op) = Target(call[c].op)
            /\ call[d].id = call[c].id
            /\ call[d].score = call[c].score
            /\ match # {})
           => \/ /\ ret[c].err = "nil" /\ ret[d].err = "ErrTaskNotFound"
                 /\ \A r \in match :
                      Occ(Pending(Store), r) = 1 /\ InZSets(Store, r, ZSets) = 0
              \/ /\ ret[d].err = "nil" /\ ret[c].err = "ErrTaskNotFound"
                 /\ \A r \in match : Copies(Store, r) = 0

\* C18.  Requeue-all under concurrent writers: with other clients adding
\* entries to the sorted sets while a requeue-all runs, every entry that was
\* in the source queue as the call began or has been added to it since is in
\* the source queue or in Pending, never both and not twice; the count
\* returned is the number of entries the call has moved to Pending; and an
\* entry that is in the source queue after the call was not there as the call
\* began.
C18_DrainUnderWriters ==
    \A c \in Clients :
        (Done(c) /\ call[c].op \in EnqueueAllOps)
        => LET q == Target(call[c].op)
               began == DOMAIN call[c].before.zsets[q]
               left == DOMAIN zsets[q]
           IN /\ ret[c].err = "nil"
              /\ \A m \in began \cup DOMAIN Source(c) \cup left :
                   Occ(Pending(Store), m) + (IF m \in left THEN 1 ELSE 0) = 1
              /\ ret[c].n = Len(Pending(post[c])) - Len(Pending(pre[c]))
              /\ ret[c].n = Cardinality(Removed(c))
              /\ left \cap began = {}

\* a requeue-all has moved an entry that was there as the call began and one
\* added before the script ran, and a third has been added since
C18_Witness ==
    \E c \in Clients :
        /\ Done(c)
        /\ call[c].op \in EnqueueAllOps
        /\ ret[c].n = 2
        /\ Cardinality(DOMAIN call[c].before.zsets[Target(call[c].op)]) = 1
        /\ Cardinality(DOMAIN zsets[Target(call[c].op)]) = 1

\* C19.  Listed score identifies the record: with no other writer, a
\* single-record requeue or delete called with the ID and the Score of a view
\* that ListScheduled, ListRetry or ListDead has returned for that queue
\* succeeds, whatever score the entry is stored at.
C19_ListedScoreIdentifies ==
    \A c, d \in Clients :
        (/\ Done(c) /\ call[c].op \in ScoredListOps
         /\ Done(d) /\ call[d].op \in EnqueueOps \cup DeleteOps
         /\ Target(call[d].op) = Target(call[c].op)
         /\ \E i \in 1..Len(ret[c].tasks) :
              /\ ret[c].tasks[i].ID = call[d].id
              /\ ret[c].tasks[i].Score = call[d].score)
        => ret[d].err = "nil"

\* C20.  A present record can always be requeued or deleted: with no other
\* writer, whenever the source queue holds a record of the given ID at the
\* given score, the single-record requeue and the single-record delete succeed
\* and remove one such record, whatever else the queue holds at that score.
C20_PresentRecordFound ==
    \A c \in Clients :
        (/\ Done(c)
         /\ call[c].op \in EnqueueOps \cup DeleteOps
         /\ Matching(Source(c), call[c].id, Float64(call[c].score)) # {})
        => /\ ret[c].err = "nil"
           /\ Cardinality(Removed(c)) = 1

=============================================================================
